---- MODULE Spec2Model ----
(***************************************************************************)
(* A model of boynton/repl (src/repl.go): the line buffer (type lineBuf    *)
(* and its methods) and the key-dispatch loop (REPL / repl) built on it.   *)
(*                                                                         *)
(* Bytes are integers 0..255, strings are sequences of bytes.              *)
(*                                                                         *)
(* The lineBuf record keeps the struct's fields under their own names.     *)
(* Its storage lb.buf ([]byte of len(lb.buf) bytes) is held as two fields: *)
(*   buf  the bytes lb.buf[0:length], as a sequence (index 0 of the code   *)
(*        is index 1 here);                                                *)
(*   cap  len(lb.buf), the size of the backing storage.                    *)
(* The bytes of the storage at indexes >= length are stale copies left by  *)
(* earlier edits.  The code reads such a byte in one place only            *)
(* (WordBackspace and WordBackward with cursor = 0 read lb.buf[0]), and    *)
(* there both values of the test lead to the same result; At returns NUL   *)
(* for it.                                                                 *)
(***************************************************************************)
EXTENDS Integers, Sequences, FiniteSets, TLC

\* ---------------------------------------------------------------- bounds
\* longest line the model lets the buffer hold
MaxLen == 3
\* capacity the line buffer of the buffer-level specifications starts with
InitCap == 2
\* most history entries the model lets a session accumulate
MaxHist == 2
\* the longest line of brackets typed in a session
MaxNest == 4

\* ------------------------------------------------- constants of the code
CTRL_A == 1
CTRL_B == 2
CTRL_C == 3
CTRL_D == 4
CTRL_E == 5
CTRL_F == 6
BEEP == 7
TAB == 9
NEWLINE == 10
CTRL_K == 11
CTRL_L == 12
RETURN == 13
CTRL_N == 14
CTRL_P == 16
CTRL_Y == 25
ESCAPE == 27
SPACE == 32
DELETE == 127
OPEN_PAREN == 40
CLOSE_PAREN == 41
OPEN_BRACKET == 91
CLOSE_BRACKET == 93
OPEN_BRACE == 123
CLOSE_BRACE == 125
\* make([]byte, n+10) in Insert
GrowBy == 10
\* newLineBuf(1024) in repl
ReplCapacity == 1024
\* 'a', 'b', 'd', 'f'
CH_a == 97
CH_b == 98
CH_d == 100
CH_f == 102
\* the zero byte of fresh storage
NUL == 0

Max(x, y) == IF x > y THEN x ELSE y

\* ------------------------------------------------------------- lineBuf
newLineBuf(capacity) ==
    [length |-> 0, cursor |-> 0, buf |-> <<>>, cap |-> capacity,
     yanked |-> <<>>, yanking |-> FALSE,
     history |-> <<>>, historyNil |-> TRUE, historyIndex |-> -1]

\* lb.buf[i], i counted from 0 as in the code
At(lb, i) == IF i < lb.length THEN lb.buf[i + 1] ELSE NUL

\* an index expression lb.buf[i] of the code aborts the program (a Go
\* run-time panic) when i is outside the storage
OutOfRange(lb, i) == i < 0 \/ i >= lb.cap

IsEmpty(lb) == lb.length = 0

String(lb) == SubSeq(lb.buf, 1, lb.length)

Clear(lb) ==
    [lb EXCEPT !.length = 0, !.cursor = 0, !.buf = <<>>, !.yanking = FALSE]

Insert(lb, ch) ==
    [lb EXCEPT
        !.yanking = FALSE,
        !.cap = IF lb.length = lb.cap THEN lb.cap + GrowBy ELSE lb.cap,
        !.buf = SubSeq(lb.buf, 1, lb.cursor) \o <<ch>>
                    \o SubSeq(lb.buf, lb.cursor + 1, lb.length),
        !.cursor = lb.cursor + 1,
        !.length = lb.length + 1]

RECURSIVE InsertBytes(_, _)
InsertBytes(lb, chs) ==
    IF chs = <<>> THEN lb
    ELSE InsertBytes(Insert(lb, Head(chs)), Tail(chs))

DeleteMissingGuard(lb) ==
    [lb |-> [lb EXCEPT !.yanking = FALSE,
                       !.buf = SubSeq(lb.buf, 1, lb.cursor)
                                 \o SubSeq(lb.buf, lb.cursor + 2, lb.length),
                       !.length = lb.length - 1],
     ret |-> TRUE]

Delete(lb) ==
    IF lb.cursor < lb.length
    THEN [lb |-> [lb EXCEPT !.yanking = FALSE,
                            !.buf = SubSeq(lb.buf, 1, lb.cursor)
                                      \o SubSeq(lb.buf, lb.cursor + 2, lb.length),
                            !.length = lb.length - 1],
          ret |-> TRUE]
    ELSE [lb |-> [lb EXCEPT !.yanking = FALSE], ret |-> FALSE]

KillToEndAlwaysAppends(lb) ==
    [lb |-> [lb EXCEPT
                !.yanked = lb.yanked \o SubSeq(lb.buf, lb.cursor + 1, lb.length),
                !.buf = SubSeq(lb.buf, 1, lb.cursor),
                !.length = lb.cursor,
                !.yanking = FALSE],
     ret |-> lb.length - lb.cursor]

KillToEnd(lb) ==
    [lb |-> [lb EXCEPT
                !.yanked = IF lb.yanking
                           THEN lb.yanked \o SubSeq(lb.buf, lb.cursor + 1, lb.length)
                           ELSE SubSeq(lb.buf, lb.cursor + 1, lb.length),
                !.buf = SubSeq(lb.buf, 1, lb.cursor),
                !.length = lb.cursor,
                !.yanking = FALSE],
     ret |-> lb.length - lb.cursor]

DeleteRange(lb, begin, end) ==
    IF begin >= 0 /\ begin > lb.length THEN [lb |-> lb, ret |-> 0]
    ELSE IF end <= lb.length /\ end < 0 THEN [lb |-> lb, ret |-> 0]
    ELSE
        LET b == IF begin < 0 THEN 0 ELSE begin
            e == IF end > lb.length THEN lb.length ELSE end
            n == e - b
        IN  IF n > 0
            THEN [lb |-> [lb EXCEPT
                            !.yanked = IF lb.yanking
                                       THEN lb.yanked \o SubSeq(lb.buf, b + 1, e)
                                       ELSE SubSeq(lb.buf, b + 1, e),
                            !.buf = SubSeq(lb.buf, 1, b)
                                      \o SubSeq(lb.buf, e + 1, lb.length),
                            !.length = lb.length - n,
                            !.cursor = b],
                  ret |-> n]
            ELSE [lb |-> lb, ret |-> n]

\* for ; i > 0; i-- { if lb.buf[i] != SPACE { break } }
RECURSIVE SkipSpacesBack(_, _)
SkipSpacesBack(lb, i) ==
    IF i > 0 /\ At(lb, i) = SPACE THEN SkipSpacesBack(lb, i - 1) ELSE i

\* for ; i > 0; i-- { if lb.buf[i] == SPACE { return ... i ... } }
\* the i at which the loop returns, or -1 when it runs out
RECURSIVE FindSpaceBack(_, _)
FindSpaceBack(lb, i) ==
    IF i > 0
    THEN IF At(lb, i) = SPACE THEN i ELSE FindSpaceBack(lb, i - 1)
    ELSE -1

\* for ; i < lb.length; i++ { if lb.buf[i] != SPACE { break } }
RECURSIVE SkipSpacesFwd(_, _)
SkipSpacesFwd(lb, i) ==
    IF i < lb.length /\ At(lb, i) = SPACE THEN SkipSpacesFwd(lb, i + 1) ELSE i

\* for ; i < lb.length; i++ { if lb.buf[i] == SPACE { return ... i ... } }
\* the i at which the loop returns, or -1 when it runs out
RECURSIVE FindSpaceFwd(_, _)
FindSpaceFwd(lb, i) ==
    IF i < lb.length
    THEN IF At(lb, i) = SPACE THEN i ELSE FindSpaceFwd(lb, i + 1)
    ELSE -1

WordBackspace(lb) ==
    LET i0 == IF lb.cursor > 0 THEN lb.cursor - 1 ELSE lb.cursor
        i1 == SkipSpacesBack(lb, i0)
        i2 == IF At(lb, i1) # SPACE THEN FindSpaceBack(lb, i1) ELSE -1
    IN  IF i2 >= 0
        THEN DeleteRange(lb, i2 + 1, lb.cursor)
        ELSE DeleteRange(lb, 0, lb.cursor)

\* the first index read is lb.cursor - 1: with cursor = 0 that is
\* lb.buf[-1], and the program aborts
WordDelete(lb) ==
    IF OutOfRange(lb, lb.cursor - 1)
    THEN [lb |-> lb, ret |-> 0, panic |-> TRUE]
    ELSE
        LET i1 == SkipSpacesFwd(lb, lb.cursor - 1)
            i2 == FindSpaceFwd(lb, i1)
        IN  IF i2 >= 0
            THEN [lb |-> DeleteRange(lb, lb.cursor, i2).lb,
                  ret |-> DeleteRange(lb, lb.cursor, i2).ret,
                  panic |-> FALSE]
            ELSE [lb |-> lb, ret |-> 0, panic |-> FALSE]

WordForward(lb) ==
    LET i1 == SkipSpacesFwd(lb, lb.cursor)
        i2 == FindSpaceFwd(lb, i1)
    IN  IF i2 >= 0
        THEN [lb EXCEPT !.cursor = i2]
        ELSE [lb EXCEPT !.cursor = lb.length]

WordBackward(lb) ==
    LET i0 == IF lb.cursor > 0 THEN lb.cursor - 1 ELSE lb.cursor
        i1 == SkipSpacesBack(lb, i0)
        i2 == IF At(lb, i1) # SPACE THEN FindSpaceBack(lb, i1) ELSE -1
    IN  IF i2 >= 0
        THEN [lb EXCEPT !.cursor = i2 + 1]
        ELSE [lb EXCEPT !.cursor = 0]

Yank(lb) ==
    [lb |-> InsertBytes([lb EXCEPT !.yanking = TRUE], lb.yanked),
     ret |-> Len(lb.yanked)]

\* a variant that leaves the cursor where it is
BackwardStaysPut(lb) ==
    [lb |-> [lb EXCEPT !.yanking = FALSE], ret |-> lb.cursor > 0]

Backward(lb) ==
    IF lb.cursor > 0
    THEN [lb |-> [lb EXCEPT !.yanking = FALSE, !.cursor = lb.cursor - 1],
          ret |-> TRUE]
    ELSE [lb |-> [lb EXCEPT !.yanking = FALSE], ret |-> FALSE]

Forward(lb) ==
    IF lb.cursor < lb.length
    THEN [lb |-> [lb EXCEPT !.yanking = FALSE, !.cursor = lb.cursor + 1],
          ret |-> TRUE]
    ELSE [lb |-> [lb EXCEPT !.yanking = FALSE], ret |-> FALSE]

Begin(lb) == [lb EXCEPT !.yanking = FALSE, !.cursor = 0]

End(lb) == [lb EXCEPT !.yanking = FALSE, !.cursor = lb.length]

\* a variant that puts the new line in front of the older ones
AddToHistoryPrepends(lb, line) ==
    [lb EXCEPT !.history = <<line>> \o lb.history,
               !.historyNil = FALSE,
               !.historyIndex = -1]

\* a variant that leaves the history index where browsing had put it
AddToHistoryKeepsBrowsing(lb, line) ==
    [lb EXCEPT !.history = Append(lb.history, line),
               !.historyNil = FALSE]

AddToHistory(lb, line) ==
    [lb EXCEPT !.history = Append(lb.history, line),
               !.historyNil = FALSE,
               !.historyIndex = -1]

\* lb.length = 0; lb.cursor = 0; lb.InsertBytes([]byte(lb.history[idx]))
LoadHistory(lb, idx) ==
    InsertBytes([lb EXCEPT !.historyIndex = idx, !.length = 0, !.cursor = 0,
                           !.buf = <<>>],
                lb.history[idx + 1])

PrevInHistoryWraps(lb) ==
    IF lb.historyNil THEN [lb |-> lb, ret |-> lb.length]
    ELSE
        LET idx == IF lb.historyIndex < 0
                   THEN Len(lb.history) - 1
                   ELSE lb.historyIndex - 1
        IN  IF idx >= 0
            THEN [lb |-> LoadHistory(lb, idx),
                  ret |-> Max(lb.length, LoadHistory(lb, idx).length)]
            ELSE [lb |-> [lb EXCEPT !.historyIndex = -1], ret |-> lb.length]

PrevInHistory(lb) ==
    IF lb.historyNil THEN [lb |-> lb, ret |-> lb.length]
    ELSE
        LET idx == IF lb.historyIndex < 0
                   THEN Len(lb.history) - 1
                   ELSE lb.historyIndex - 1
        IN  IF idx >= 0
            THEN [lb |-> LoadHistory(lb, idx),
                  ret |-> Max(lb.length, LoadHistory(lb, idx).length)]
            ELSE [lb |-> [lb EXCEPT !.historyIndex = 0], ret |-> lb.length]

NextInHistoryStopsBrowsing(lb) ==
    IF lb.historyNil \/ lb.historyIndex < 0 THEN [lb |-> lb, ret |-> lb.length]
    ELSE
        LET idx == lb.historyIndex + 1
        IN  IF idx < Len(lb.history)
            THEN [lb |-> LoadHistory(lb, idx),
                  ret |-> Max(lb.length, LoadHistory(lb, idx).length)]
            ELSE [lb |-> [lb EXCEPT !.historyIndex = -1], ret |-> lb.length]

NextInHistory(lb) ==
    IF lb.historyNil \/ lb.historyIndex < 0 THEN [lb |-> lb, ret |-> lb.length]
    ELSE
        LET idx == lb.historyIndex + 1
        IN  IF idx < Len(lb.history)
            THEN [lb |-> LoadHistory(lb, idx),
                  ret |-> Max(lb.length, LoadHistory(lb, idx).length)]
            ELSE [lb |-> lb, ret |-> lb.length]


\* ------------------------------------------------------------ variables
VARIABLES
    lb,         \* the line buffer (buf of repl, or the buffer under test)
    pc,         \* where the program, or the caller of the buffer, is
    meta,       \* repl: an ESCAPE was the last byte read in normal state
    lastChar,   \* repl: the byte handled by the previous iteration
    options,    \* repl: the candidates kept for a repeated Tab
    prompt,     \* repl: the current prompt
    tty,        \* the terminal's mode and the calls that changed it
    term,       \* the terminal's current line and cursor column
    signal,     \* what the last iteration signalled and printed
    hnd,        \* the calls made to the ReplHandler: the totals, and the
                \* calls of the last iteration
    result,     \* what repl and REPL returned
    last,       \* history variable: the last lineBuf method called
    pre,        \* history variable: the line buffer before that call
    run         \* history variable: consecutive PrevInHistory calls made
                \* since the buffer was last not browsing; for the caller of
                \* RoundTripSpec, the characters it still has to erase

bufVars == <<lb, pc>>
replVars == <<meta, lastChar, options, prompt, tty, term, signal, hnd, result>>
ghostVars == <<last, pre, run>>
vars == <<lb, pc, meta, lastChar, options, prompt, tty, term, signal, hnd,
          result, last, pre, run>>

\* ------------------------------------------------------ inputs (bounded)
\* the printable bytes typed or inserted
Chars == {SPACE, CH_a}
\* the lines handed to InsertBytes and AddToHistory
Lines == {<<CH_a>>, <<SPACE, CH_a>>}
\* the begin and end handed to DeleteRange
Positions == -1 .. MaxLen + 1

B2I(b) == IF b THEN 1 ELSE 0

NoCall == [op |-> "newLineBuf", prev |-> "newLineBuf", a |-> 0, b |-> 0, ret |-> 0]

ReplIdle ==
    /\ meta = FALSE
    /\ lastChar = NUL
    /\ options = [nil |-> TRUE, list |-> <<>>]
    /\ prompt = <<>>
    /\ tty = [mode |-> "cooked", entered |-> 0, restored |-> 0]
    /\ term = [line |-> <<>>, col |-> 0]
    /\ signal = [beep |-> FALSE, flash |-> -1, printed |-> "none"]
    /\ hnd = [start |-> 0, stop |-> 0, afterStop |-> FALSE, seed |-> <<>>,
              stopArg |-> <<>>, submitted |-> <<>>, eval |-> "none",
              calls |-> <<>>]
    /\ result = [repl |-> "none", REPL |-> "none"]

\* a line buffer fresh from newLineBuf, its methods about to be called
BufInit ==
    /\ lb = newLineBuf(InitCap)
    /\ pc = "buf"
    /\ ReplIdle
    /\ last = NoCall
    /\ pre = newLineBuf(InitCap)
    /\ run = 0

\* the history variables after a call op(a, b) that returned ret;
\* t says whether this specification keeps them
Record(t, op, a, b, ret) ==
    IF t
    THEN /\ last' = [op |-> op, prev |-> last.op, a |-> a, b |-> b, ret |-> ret]
         /\ pre' = lb
         /\ run' = IF op # "PrevInHistory" THEN 0
                   ELSE IF run > 0 THEN (IF run <= MaxHist THEN run + 1 ELSE run)
                   ELSE IF lb.historyIndex = -1 THEN 1 ELSE 0
    ELSE UNCHANGED ghostVars

\* -------------------------------------- one action per lineBuf method
CallClear(t) ==
    /\ pc = "buf"
    /\ lb' = Clear(lb)
    /\ Record(t, "Clear", 0, 0, 0)
    /\ UNCHANGED <<pc, replVars>>

CallInsert(t) ==
    /\ pc = "buf"
    /\ lb.length < MaxLen
    /\ \E ch \in Chars :
        /\ lb' = Insert(lb, ch)
        /\ Record(t, "Insert", ch, 0, 0)
    /\ UNCHANGED <<pc, replVars>>

CallInsertBytes(t) ==
    /\ pc = "buf"
    /\ \E chs \in Lines :
        /\ lb.length + Len(chs) <= MaxLen
        /\ lb' = InsertBytes(lb, chs)
        /\ Record(t, "InsertBytes", Len(chs), 0, 0)
    /\ UNCHANGED <<pc, replVars>>

CallDelete(t) ==
    /\ pc = "buf"
    /\ lb' = Delete(lb).lb
    /\ Record(t, "Delete", 0, 0, B2I(Delete(lb).ret))
    /\ UNCHANGED <<pc, replVars>>

CallKillToEnd(t) ==
    /\ pc = "buf"
    /\ lb' = KillToEnd(lb).lb
    /\ Record(t, "KillToEnd", 0, 0, KillToEnd(lb).ret)
    /\ UNCHANGED <<pc, replVars>>

CallDeleteRange(t) ==
    /\ pc = "buf"
    /\ \E begin \in Positions, end \in Positions :
        /\ lb' = DeleteRange(lb, begin, end).lb
        /\ Record(t, "DeleteRange", begin, end, DeleteRange(lb, begin, end).ret)
    /\ UNCHANGED <<pc, replVars>>

CallWordBackspace(t) ==
    /\ pc = "buf"
    /\ lb' = WordBackspace(lb).lb
    /\ Record(t, "WordBackspace", 0, 0, WordBackspace(lb).ret)
    /\ UNCHANGED <<pc, replVars>>

CallWordDelete(t) ==
    /\ pc = "buf"
    /\ lb' = WordDelete(lb).lb
    /\ pc' = IF WordDelete(lb).panic THEN "panic" ELSE pc
    /\ Record(t, "WordDelete", 0, 0, WordDelete(lb).ret)
    /\ UNCHANGED replVars

CallWordForward(t) ==
    /\ pc = "buf"
    /\ lb' = WordForward(lb)
    /\ Record(t, "WordForward", 0, 0, 0)
    /\ UNCHANGED <<pc, replVars>>

CallWordBackward(t) ==
    /\ pc = "buf"
    /\ lb' = WordBackward(lb)
    /\ Record(t, "WordBackward", 0, 0, 0)
    /\ UNCHANGED <<pc, replVars>>

CallYank(t) ==
    /\ pc = "buf"
    /\ lb.length + Len(lb.yanked) <= MaxLen
    /\ lb' = Yank(lb).lb
    /\ Record(t, "Yank", 0, 0, Yank(lb).ret)
    /\ UNCHANGED <<pc, replVars>>

CallBackward(t) ==
    /\ pc = "buf"
    /\ lb' = Backward(lb).lb
    /\ Record(t, "Backward", 0, 0, B2I(Backward(lb).ret))
    /\ UNCHANGED <<pc, replVars>>

CallForward(t) ==
    /\ pc = "buf"
    /\ lb' = Forward(lb).lb
    /\ Record(t, "Forward", 0, 0, B2I(Forward(lb).ret))
    /\ UNCHANGED <<pc, replVars>>

CallBegin(t) ==
    /\ pc = "buf"
    /\ lb' = Begin(lb)
    /\ Record(t, "Begin", 0, 0, 0)
    /\ UNCHANGED <<pc, replVars>>

CallEnd(t) ==
    /\ pc = "buf"
    /\ lb' = End(lb)
    /\ Record(t, "End", 0, 0, 0)
    /\ UNCHANGED <<pc, replVars>>

CallAddToHistory(t) ==
    /\ pc = "buf"
    /\ Len(lb.history) < MaxHist
    /\ \E line \in Lines :
        /\ lb' = AddToHistory(lb, line)
        /\ Record(t, "AddToHistory", Len(line), 0, 0)
    /\ UNCHANGED <<pc, replVars>>

CallPrevInHistory(t) ==
    /\ pc = "buf"
    /\ lb' = PrevInHistory(lb).lb
    /\ Record(t, "PrevInHistory", 0, 0, PrevInHistory(lb).ret)
    /\ UNCHANGED <<pc, replVars>>

CallNextInHistory(t) ==
    /\ pc = "buf"
    /\ lb' = NextInHistory(lb).lb
    /\ Record(t, "NextInHistory", 0, 0, NextInHistory(lb).ret)
    /\ UNCHANGED <<pc, replVars>>

\* every method, in any order, on a fresh buffer
BufNext ==
    \/ CallClear(FALSE)
    \/ CallInsert(FALSE)
    \/ CallInsertBytes(FALSE)
    \/ CallDelete(FALSE)
    \/ CallKillToEnd(FALSE)
    \/ CallDeleteRange(FALSE)
    \/ CallWordBackspace(FALSE)
    \/ CallWordDelete(FALSE)
    \/ CallWordForward(FALSE)
    \/ CallWordBackward(FALSE)
    \/ CallYank(FALSE)
    \/ CallBackward(FALSE)
    \/ CallForward(FALSE)
    \/ CallBegin(FALSE)
    \/ CallEnd(FALSE)
    \/ CallAddToHistory(FALSE)
    \/ CallPrevInHistory(FALSE)
    \/ CallNextInHistory(FALSE)

BufSpec == BufInit /\ [][BufNext]_vars

\* the editing methods, with the history variables kept
EditNext ==
    \/ CallClear(TRUE)
    \/ CallInsert(TRUE)
    \/ CallDelete(TRUE)
    \/ CallKillToEnd(TRUE)
    \/ CallWordBackspace(TRUE)
    \/ CallWordDelete(TRUE)
    \/ CallWordForward(TRUE)
    \/ CallWordBackward(TRUE)
    \/ CallYank(TRUE)
    \/ CallBackward(TRUE)
    \/ CallForward(TRUE)
    \/ CallBegin(TRUE)
    \/ CallEnd(TRUE)

EditSpec == BufInit /\ [][EditNext]_vars

\* DeleteRange with any begin and end, with the history variables kept
RangeNext ==
    \/ CallInsert(TRUE)
    \/ CallBackward(TRUE)
    \/ CallYank(TRUE)
    \/ CallDeleteRange(TRUE)

RangeSpec == BufInit /\ [][RangeNext]_vars

\* the history methods, with the history variables kept
HistNext ==
    \/ CallClear(TRUE)
    \/ CallInsert(TRUE)
    \/ CallAddToHistory(TRUE)
    \/ CallPrevInHistory(TRUE)
    \/ CallNextInHistory(TRUE)

HistSpec == BufInit /\ [][HistNext]_vars

\* the word methods on every text and cursor, with the history variables
WordNext ==
    \/ CallInsert(TRUE)
    \/ CallBackward(TRUE)
    \/ CallWordBackspace(TRUE)
    \/ CallWordDelete(TRUE)
    \/ CallWordForward(TRUE)
    \/ CallWordBackward(TRUE)

WordSpec == BufInit /\ [][WordNext]_vars

\* A caller that, once the buffer is empty, inserts some characters
\* (pc = "typing", run counts them) and then calls Backward and Delete
\* in turn, once for each of them (pc = "backward", "erasing"; run counts
\* the pairs still to come; pre is the buffer when the typing ended).
TypeInsert ==
    /\ \/ pc = "buf" /\ IsEmpty(lb) /\ run' = 1
       \/ pc = "typing" /\ run' = run + 1
    /\ lb.length < MaxLen
    /\ \E ch \in Chars : lb' = Insert(lb, ch)
    /\ pc' = "typing"
    /\ UNCHANGED <<replVars, last, pre>>

EraseBackward ==
    /\ \/ pc = "typing" /\ pre' = lb
       \/ pc = "erasing" /\ pre' = pre
    /\ run > 0
    /\ lb' = Backward(lb).lb
    /\ pc' = "backward"
    /\ UNCHANGED <<replVars, last, run>>

EraseDelete ==
    /\ pc = "backward"
    /\ lb' = Delete(lb).lb
    /\ run' = run - 1
    /\ pc' = "erasing"
    /\ UNCHANGED <<replVars, last, pre>>

\* any editing until the buffer is empty, then the caller above
RoundTripNext ==
    \/ CallInsert(FALSE)
    \/ CallBackward(FALSE)
    \/ CallKillToEnd(FALSE)
    \/ CallYank(FALSE)
    \/ TypeInsert
    \/ EraseBackward
    \/ EraseDelete

RoundTripSpec == BufInit /\ [][RoundTripNext]_vars

\* ------------------------------------------------------------ terminal
\* The terminal is one line of character cells and a cursor column; blank
\* cells at the end of the line are not kept.  A newline starts a fresh,
\* empty line (output post-processing is left on by makeCbreak).
RECURSIVE Trim(_)
Trim(line) ==
    IF line # <<>> /\ line[Len(line)] = SPACE
    THEN Trim(SubSeq(line, 1, Len(line) - 1))
    ELSE line

SetCell(line, col, ch) ==
    [i \in 1 .. Max(Len(line), col + 1) |->
        IF i = col + 1 THEN ch
        ELSE IF i <= Len(line) THEN line[i] ELSE SPACE]

putChar(t, b) ==
    IF b = RETURN THEN [t EXCEPT !.col = 0]
    ELSE IF b = NEWLINE THEN [line |-> <<>>, col |-> 0]
    ELSE IF b = BEEP THEN t
    ELSE [line |-> Trim(SetCell(t.line, t.col, b)), col |-> t.col + 1]

RECURSIVE putString(_, _)
putString(t, str) ==
    IF str = <<>> THEN t
    ELSE putString(putChar(t, Head(str)), Tail(str))

\* ESC [ 1 D
cursorBackward(t) == [t EXCEPT !.col = IF t.col > 0 THEN t.col - 1 ELSE 0]

\* ESC [ 1 C
cursorForward(t) == [t EXCEPT !.col = t.col + 1]

\* fmt.Println(...): some text, then a newline
Println(t) == putChar(t, NEWLINE)

RECURSIVE Spaces(_, _)
Spaces(t, n) == IF n > 0 THEN Spaces(putChar(t, SPACE), n - 1) ELSE t

RECURSIVE BackBy(_, _)
BackBy(t, n) == IF n > 0 THEN BackBy(cursorBackward(t), n - 1) ELSE t

drawline(t, p, b, extra) ==
    BackBy(Spaces(putString(putString(putChar(t, RETURN), p), String(b)), extra),
           b.length + extra - b.cursor)

\* ------------------------------------------------------ bracket matching
matching(ch) ==
    IF ch = CLOSE_PAREN THEN OPEN_PAREN
    ELSE IF ch = CLOSE_BRACKET THEN OPEN_BRACKET
    ELSE IF ch = CLOSE_BRACE THEN OPEN_BRACE
    ELSE 0

\* the loop of highlightMatch from index i with the given count: the index
\* of the opener the cursor is shown at, or -1 when the loop runs out
RECURSIVE MatchScan(_, _, _, _, _)
MatchScan(b, i, count, chOpen, chClose) ==
    IF i > 0
    THEN IF At(b, i - 1) = chOpen
         THEN IF count - 1 = 0 THEN i - 1
              ELSE MatchScan(b, i - 1, count - 1, chOpen, chClose)
         ELSE IF At(b, i - 1) = chClose
         THEN MatchScan(b, i - 1, count + 1, chOpen, chClose)
         ELSE MatchScan(b, i - 1, count, chOpen, chClose)
    ELSE -1

\* a variant that stops at the first opener, whatever lies between
highlightMatchIgnoresNesting(b, chOpen, chClose) ==
    LET found == {j \in 0 .. b.cursor - 2 : At(b, j) = chOpen}
    IN  IF found = {} THEN -1
        ELSE CHOOSE j \in found : \A k \in found : k <= j

\* the index highlightMatch shows the cursor at, or -1 when it beeps
highlightMatch(b, chOpen, chClose) ==
    MatchScan(b, b.cursor - 1, 1, chOpen, chClose)

\* ------------------------------------------------- inputs of a session
\* handler.Prompt()
PromptText == <<62, SPACE>>
Prompts == {PromptText}
\* handler.Start(): nil, an empty list, a list of one line
Seeds == {[nil |-> TRUE, list |-> <<>>],
          [nil |-> FALSE, list |-> <<>>],
          [nil |-> FALSE, list |-> << <<CH_a>> >>]}
\* handler.Eval(s): an error, a request for more, a result
EvalOutcomes == {"err", "more", "result"}
\* handler.Complete(s): the addendum and the candidates
Addenda == {<<>>, <<CH_a>>}
Candidates == {[nil |-> TRUE, list |-> <<>>],
               [nil |-> FALSE, list |-> << <<CH_a>> >>],
               [nil |-> FALSE, list |-> << <<CH_a>>, <<CH_a, CH_a>> >>]}
\* the printable bytes typed in normal state
Typed == {CH_a}
\* bytes no case handles: NUL (what getChar returns for a read of zero
\* bytes) and NEWLINE in normal state; these and RETURN after an ESCAPE
OtherKeys == {NUL, NEWLINE}
OtherMetaKeys == {NUL, RETURN, ESCAPE, CH_a}

\* what one iteration of the loop signals and prints besides the line:
\* the BEEP, the index a bracket match is shown at, the text printed
Quiet == [beep |-> FALSE, flash |-> -1, printed |-> "none"]
Beeped == [beep |-> TRUE, flash |-> -1, printed |-> "none"]

\* an iteration starts: no handler method called in it yet
NoCalls(h) == [h EXCEPT !.calls = <<>>]

\* a call of handler method m with the text arg; calls holds the calls of
\* the current iteration in order; a call made after Stop is remembered
HCall(h, m, arg) ==
    [h EXCEPT !.afterStop = h.afterStop \/ h.stop > 0,
              !.calls = Append(h.calls, [m |-> m, arg |-> arg])]

\* handler.Stop(history)
HStop(h, history) ==
    [HCall(h, "Stop", <<>>) EXCEPT !.stop = h.stop + 1, !.stopArg = history]

\* the session before REPL is called
Init ==
    /\ lb = newLineBuf(ReplCapacity)
    /\ pc = "REPL"
    /\ ReplIdle
    /\ last = NoCall
    /\ pre = newLineBuf(ReplCapacity)
    /\ run = 0

\* ----------------------------------------------------------------- REPL
\* makeCbreak succeeds; restore is deferred; repl is called
REPL ==
    /\ pc = "REPL"
    /\ tty' = [tty EXCEPT !.mode = "cbreak", !.entered = tty.entered + 1]
    /\ pc' = "repl"
    /\ UNCHANGED <<lb, meta, lastChar, options, prompt, term, signal, hnd,
                   result, ghostVars>>

\* makeCbreak fails: REPL returns the error
REPLCbreakFails ==
    /\ pc = "REPL"
    /\ result' = [result EXCEPT !.REPL = "err"]
    /\ pc' = "done"
    /\ UNCHANGED <<lb, meta, lastChar, options, prompt, tty, term, signal, hnd,
                   ghostVars>>

\* a variant that returns without the restore
REPLReturnsWithoutRestore(r) ==
    /\ result' = [repl |-> r, REPL |-> "nil"]
    /\ tty' = tty
    /\ pc' = "done"

\* repl returned r: the deferred restore runs and REPL returns nil
REPLReturns(r) ==
    /\ result' = [repl |-> r, REPL |-> "nil"]
    /\ tty' = [tty EXCEPT !.mode = "cooked", !.restored = tty.restored + 1]
    /\ pc' = "done"

\* an index out of range: the program panics, the deferred restore runs
\* and neither repl nor REPL returns
Panics ==
    /\ tty' = [tty EXCEPT !.mode = "cooked", !.restored = tty.restored + 1]
    /\ pc' = "panic"
    /\ UNCHANGED result

\* repl up to its loop: the buffer, Start, Prompt
replStart ==
    /\ pc = "repl"
    /\ \E seed \in Seeds, p \in Prompts :
        /\ lb' = IF seed.nil THEN newLineBuf(ReplCapacity)
                 ELSE [newLineBuf(ReplCapacity) EXCEPT
                          !.history = seed.list, !.historyNil = FALSE]
        /\ hnd' = [HCall(HCall(NoCalls(hnd), "Start", <<>>), "Prompt", <<>>)
                      EXCEPT !.start = hnd.start + 1, !.seed = seed.list]
        /\ prompt' = p
        /\ term' = putString(term, p)
    /\ meta' = FALSE
    /\ lastChar' = NUL
    /\ options' = [nil |-> TRUE, list |-> <<>>]
    /\ pc' = "read"
    /\ UNCHANGED <<tty, signal, result, ghostVars>>

\* getChar returns an error
ReadError ==
    /\ pc = "read"
    /\ hnd' = HStop(NoCalls(hnd), lb.history)
    /\ REPLReturns("err")
    /\ signal' = Quiet
    /\ UNCHANGED <<lb, meta, lastChar, options, prompt, term, ghostVars>>

\* the stream is at its end: the read returns zero bytes and getChar
\* returns (0, nil); the byte 0 takes the default case in either state.
\* Every later read finds the stream at its end too (pc = "eof").
ReadZeroBytes ==
    /\ pc \in {"read", "eof"}
    /\ meta' = FALSE
    /\ term' = putChar(term, BEEP)
    /\ signal' = Beeped
    /\ lastChar' = NUL
    /\ hnd' = NoCalls(hnd)
    /\ pc' = "eof"
    /\ UNCHANGED <<lb, options, prompt, tty, result, ghostVars>>

\* the end of an iteration that goes on to read the next byte
Handled(ch) ==
    /\ lastChar' = ch
    /\ pc' = "read"
    /\ UNCHANGED <<tty, result, ghostVars>>

\* ------------------------------------------- the byte after an ESCAPE
MetaDelete ==
    /\ pc = "read" /\ meta
    /\ meta' = FALSE
    /\ lb' = WordBackspace(lb).lb
    /\ term' = drawline(term, prompt, lb', WordBackspace(lb).ret)
    /\ signal' = Quiet
    /\ Handled(DELETE)
    /\ hnd' = NoCalls(hnd)
    /\ UNCHANGED <<options, prompt>>

Meta_d ==
    /\ pc = "read" /\ meta
    /\ meta' = FALSE
    /\ lb' = WordDelete(lb).lb
    /\ IF WordDelete(lb).panic
       THEN /\ Panics
            /\ UNCHANGED <<term, signal, lastChar, ghostVars>>
       ELSE /\ term' = drawline(term, prompt, lb', WordDelete(lb).ret)
            /\ signal' = Quiet
            /\ Handled(CH_d)
    /\ hnd' = NoCalls(hnd)
    /\ UNCHANGED <<options, prompt>>

\* a variant that moves a word forward
Meta_bMovesForward ==
    /\ pc = "read" /\ meta
    /\ meta' = FALSE
    /\ lb' = WordForward(lb)
    /\ term' = drawline(term, prompt, lb', 0)
    /\ signal' = Quiet
    /\ Handled(CH_b)
    /\ hnd' = NoCalls(hnd)
    /\ UNCHANGED <<options, prompt>>

Meta_b ==
    /\ pc = "read" /\ meta
    /\ meta' = FALSE
    /\ lb' = WordBackward(lb)
    /\ term' = drawline(term, prompt, lb', 0)
    /\ signal' = Quiet
    /\ Handled(CH_b)
    /\ hnd' = NoCalls(hnd)
    /\ UNCHANGED <<options, prompt>>

Meta_f ==
    /\ pc = "read" /\ meta
    /\ meta' = FALSE
    /\ lb' = WordForward(lb)
    /\ term' = drawline(term, prompt, lb', 0)
    /\ signal' = Quiet
    /\ Handled(CH_f)
    /\ hnd' = NoCalls(hnd)
    /\ UNCHANGED <<options, prompt>>

MetaOther(keys) ==
    /\ pc = "read" /\ meta
    /\ meta' = FALSE
    /\ \E ch \in keys : Handled(ch)
    /\ term' = putChar(term, BEEP)
    /\ signal' = Beeped
    /\ hnd' = NoCalls(hnd)
    /\ UNCHANGED <<lb, options, prompt>>

\* ------------------------------------------------ bytes in normal state
KeyEscape ==
    /\ pc = "read" /\ ~meta
    /\ meta' = TRUE
    /\ signal' = Quiet
    /\ Handled(ESCAPE)
    /\ hnd' = NoCalls(hnd)
    /\ UNCHANGED <<lb, options, prompt, term>>

\* CTRL_D on an empty buffer: Stop, and repl returns nil
KeyCtrlDEmpty ==
    /\ pc = "read" /\ ~meta
    /\ IsEmpty(lb)
    /\ term' = putString(term, <<NEWLINE>>)
    /\ hnd' = HStop(NoCalls(hnd), lb.history)
    /\ REPLReturns("nil")
    /\ signal' = Quiet
    /\ UNCHANGED <<lb, meta, lastChar, options, prompt, ghostVars>>

KeyCtrlD ==
    /\ pc = "read" /\ ~meta
    /\ ~IsEmpty(lb)
    /\ lb' = Delete(lb).lb
    /\ term' = drawline(term, prompt, lb', 1)
    /\ signal' = Quiet
    /\ Handled(CTRL_D)
    /\ hnd' = NoCalls(hnd)
    /\ UNCHANGED <<meta, options, prompt>>

KeyCtrlA ==
    /\ pc = "read" /\ ~meta
    /\ lb' = Begin(lb)
    /\ term' = drawline(term, prompt, lb', 0)
    /\ signal' = Quiet
    /\ Handled(CTRL_A)
    /\ hnd' = NoCalls(hnd)
    /\ UNCHANGED <<meta, options, prompt>>

KeyCtrlE ==
    /\ pc = "read" /\ ~meta
    /\ lb' = End(lb)
    /\ term' = drawline(term, prompt, lb', 0)
    /\ signal' = Quiet
    /\ Handled(CTRL_E)
    /\ hnd' = NoCalls(hnd)
    /\ UNCHANGED <<meta, options, prompt>>

KeyCtrlF ==
    /\ pc = "read" /\ ~meta
    /\ lb' = Forward(lb).lb
    /\ term' = IF Forward(lb).ret
               THEN drawline(cursorForward(term), prompt, lb', 0)
               ELSE term
    /\ signal' = Quiet
    /\ Handled(CTRL_F)
    /\ hnd' = NoCalls(hnd)
    /\ UNCHANGED <<meta, options, prompt>>

KeyCtrlB ==
    /\ pc = "read" /\ ~meta
    /\ lb' = Backward(lb).lb
    /\ term' = IF Backward(lb).ret
               THEN drawline(cursorBackward(term), prompt, lb', 0)
               ELSE term
    /\ signal' = Quiet
    /\ Handled(CTRL_B)
    /\ hnd' = NoCalls(hnd)
    /\ UNCHANGED <<meta, options, prompt>>

\* "*** Interrupt ***\n", Clear, Reset, Prompt
KeyCtrlC ==
    /\ pc = "read" /\ ~meta
    /\ lb' = Clear(lb)
    /\ hnd' = HCall(HCall(NoCalls(hnd), "Reset", <<>>), "Prompt", <<>>)
    /\ \E p \in Prompts :
        /\ prompt' = p
        /\ term' = putString(Println(term), p)
    /\ signal' = [Quiet EXCEPT !.printed = "interrupt"]
    /\ Handled(CTRL_C)
    /\ UNCHANGED <<meta, options>>

KeyCtrlK ==
    /\ pc = "read" /\ ~meta
    /\ lb' = KillToEnd(lb).lb
    /\ term' = drawline(term, prompt, lb', KillToEnd(lb).ret)
    /\ signal' = Quiet
    /\ Handled(CTRL_K)
    /\ hnd' = NoCalls(hnd)
    /\ UNCHANGED <<meta, options, prompt>>

KeyCtrlY ==
    /\ pc = "read" /\ ~meta
    /\ lb.length + Len(lb.yanked) <= MaxLen
    /\ lb' = Yank(lb).lb
    /\ term' = drawline(term, prompt, lb', Yank(lb).ret)
    /\ signal' = Quiet
    /\ Handled(CTRL_Y)
    /\ hnd' = NoCalls(hnd)
    /\ UNCHANGED <<meta, options, prompt>>

KeyCtrlL ==
    /\ pc = "read" /\ ~meta
    /\ term' = drawline(putString(term, <<NEWLINE>>), prompt, lb, 0)
    /\ signal' = Quiet
    /\ Handled(CTRL_L)
    /\ hnd' = NoCalls(hnd)
    /\ UNCHANGED <<lb, meta, options, prompt>>

KeyCtrlN ==
    /\ pc = "read" /\ ~meta
    /\ lb' = NextInHistory(lb).lb
    /\ term' = drawline(term, prompt, lb', NextInHistory(lb).ret)
    /\ signal' = Quiet
    /\ Handled(CTRL_N)
    /\ hnd' = NoCalls(hnd)
    /\ UNCHANGED <<meta, options, prompt>>

KeyCtrlP ==
    /\ pc = "read" /\ ~meta
    /\ lb' = PrevInHistory(lb).lb
    /\ term' = drawline(term, prompt, lb', PrevInHistory(lb).ret)
    /\ signal' = Quiet
    /\ Handled(CTRL_P)
    /\ hnd' = NoCalls(hnd)
    /\ UNCHANGED <<meta, options, prompt>>

\* the candidates, one per line, then the line again
RECURSIVE PrintOptions(_, _)
PrintOptions(t, list) ==
    IF list = <<>> THEN t
    ELSE PrintOptions(putString(putChar(t, NEWLINE), Head(list)), Tail(list))

\* Tab after Tab
KeyTabRepeated ==
    /\ pc = "read" /\ ~meta
    /\ lastChar = TAB
    /\ term' = IF ~options.nil
               THEN putChar(drawline(putChar(PrintOptions(term, options.list),
                                             NEWLINE),
                                     prompt, lb, 0),
                            BEEP)
               ELSE putChar(term, BEEP)
    /\ signal' = Beeped
    /\ Handled(TAB)
    /\ hnd' = NoCalls(hnd)
    /\ UNCHANGED <<lb, meta, options, prompt>>

\* Tab after another byte: Complete is asked
KeyTab(candidates) ==
    /\ pc = "read" /\ ~meta
    /\ lastChar # TAB
    /\ \E addendum \in Addenda, opt \in candidates :
        LET b1 == IF Len(addendum) > 0 THEN InsertBytes(lb, addendum) ELSE lb
            one == Len(opt.list) = 1
        IN  /\ lb.length + Len(addendum) + 1 <= MaxLen
            /\ lb' = IF one THEN Insert(b1, SPACE) ELSE b1
            /\ options' = IF one THEN [nil |-> TRUE, list |-> <<>>] ELSE opt
            /\ signal' = IF one THEN Quiet ELSE Beeped
            /\ term' = drawline(term, prompt, lb', 0)
    /\ hnd' = HCall(NoCalls(hnd), "Complete", SubSeq(lb.buf, 1, lb.cursor))
    /\ Handled(TAB)
    /\ UNCHANGED <<meta, prompt>>

KeyDelete ==
    /\ pc = "read" /\ ~meta
    /\ IF Backward(lb).ret
       THEN /\ lb' = Delete(Backward(lb).lb).lb
            /\ term' = drawline(term, prompt, lb', 1)
            /\ signal' = Quiet
       ELSE /\ lb' = Backward(lb).lb
            /\ term' = putChar(term, BEEP)
            /\ signal' = Beeped
    /\ Handled(DELETE)
    /\ hnd' = NoCalls(hnd)
    /\ UNCHANGED <<meta, options, prompt>>

\* a variant that asks for a prompt and writes it after every Eval
KeyReturnPromptsAlways ==
    /\ pc = "read" /\ ~meta
    /\ Len(lb.history) < MaxHist
    /\ lb' = Clear(AddToHistory(lb, String(lb)))
    /\ \E outcome \in EvalOutcomes, p \in Prompts :
        LET t1 == IF ~IsEmpty(lb) THEN putChar(term, NEWLINE) ELSE term
            h1 == [HCall(NoCalls(hnd), "Eval", String(lb)) EXCEPT
                      !.submitted = Append(hnd.submitted, String(lb)),
                      !.eval = outcome]
        IN  /\ prompt' = p
            /\ term' = putString(t1, p)
            /\ hnd' = HCall(h1, "Prompt", <<>>)
            /\ signal' = [Quiet EXCEPT !.printed =
                             IF outcome = "err" THEN "error"
                             ELSE IF outcome = "more" THEN "none"
                             ELSE "result"]
    /\ Handled(RETURN)
    /\ UNCHANGED <<meta, options>>

\* Return: the line goes to the history and to Eval
KeyReturn ==
    /\ pc = "read" /\ ~meta
    /\ Len(lb.history) < MaxHist
    /\ lb' = Clear(AddToHistory(lb, String(lb)))
    /\ \E outcome \in EvalOutcomes, p \in Prompts :
        LET t1 == IF ~IsEmpty(lb) THEN putChar(term, NEWLINE) ELSE term
            h1 == [HCall(NoCalls(hnd), "Eval", String(lb)) EXCEPT
                      !.submitted = Append(hnd.submitted, String(lb)),
                      !.eval = outcome]
        IN  IF outcome = "more"
            THEN /\ prompt' = <<>>
                 /\ term' = t1
                 /\ hnd' = h1
                 /\ signal' = Quiet
            ELSE /\ prompt' = p
                 /\ term' = putString(Println(t1), p)
                 /\ hnd' = HCall(h1, "Prompt", <<>>)
                 /\ signal' = [Quiet EXCEPT !.printed =
                                  IF outcome = "err" THEN "error" ELSE "result"]
    /\ Handled(RETURN)
    /\ UNCHANGED <<meta, options>>

\* a printable byte
KeyPrintable(typed, maxLine) ==
    /\ pc = "read" /\ ~meta
    /\ lb.length < maxLine
    /\ \E ch \in typed :
        /\ lb' = Insert(lb, ch)
        /\ term' = drawline(term, prompt, lb', 0)
        /\ signal' = IF matching(ch) = 0 THEN Quiet
                     ELSE IF highlightMatch(lb', matching(ch), ch) >= 0
                     THEN [Quiet EXCEPT
                              !.flash = highlightMatch(lb', matching(ch), ch)]
                     ELSE Beeped
        /\ Handled(ch)
    /\ hnd' = NoCalls(hnd)
    /\ UNCHANGED <<meta, options, prompt>>

\* any other byte
KeyOther(keys) ==
    /\ pc = "read" /\ ~meta
    /\ \E ch \in keys : Handled(ch)
    /\ term' = putChar(term, BEEP)
    /\ signal' = Beeped
    /\ hnd' = NoCalls(hnd)
    /\ UNCHANGED <<lb, meta, options, prompt>>

Next ==
    \/ REPL
    \/ REPLCbreakFails
    \/ replStart
    \/ ReadError
    \/ MetaDelete
    \/ Meta_d
    \/ Meta_b
    \/ Meta_f
    \/ MetaOther(OtherMetaKeys)
    \/ KeyEscape
    \/ KeyCtrlDEmpty
    \/ KeyCtrlD
    \/ KeyCtrlA
    \/ KeyCtrlE
    \/ KeyCtrlF
    \/ KeyCtrlB
    \/ KeyCtrlC
    \/ KeyCtrlK
    \/ KeyCtrlY
    \/ KeyCtrlL
    \/ KeyCtrlN
    \/ KeyCtrlP
    \/ KeyTabRepeated
    \/ KeyTab(Candidates)
    \/ KeyDelete
    \/ KeyReturn
    \/ KeyPrintable(Typed, MaxLen)
    \/ KeyOther(OtherKeys)

\* a session with every byte the model types
Spec == Init /\ [][Next]_vars

\* the candidate lists of a handler whose completions are never unique
Ambiguous == {c \in Candidates : Len(c.list) # 1}

\* a session of the bytes that call the handler, touch the history or end
\* the loop, with a handler whose completions are never unique
ProtocolNext ==
    \/ REPL
    \/ REPLCbreakFails
    \/ replStart
    \/ ReadError
    \/ KeyEscape
    \/ Meta_d
    \/ MetaOther({RETURN})
    \/ KeyCtrlDEmpty
    \/ KeyCtrlD
    \/ KeyCtrlC
    \/ KeyCtrlN
    \/ KeyCtrlP
    \/ KeyTabRepeated
    \/ KeyTab(Ambiguous)
    \/ KeyReturn
    \/ KeyPrintable(Typed, MaxLen)
    \/ KeyOther({NEWLINE})

ProtocolSpec == Init /\ [][ProtocolNext]_vars

\* a session in which only printable bytes and Return are typed
ContinuationNext ==
    \/ REPL
    \/ replStart
    \/ ReadError
    \/ KeyReturn
    \/ KeyPrintable(Typed, MaxLen)

ContinuationSpec == Init /\ [][ContinuationNext]_vars

\* a session of words, cursor moves and ESCAPE sequences
MetaNext ==
    \/ REPL
    \/ replStart
    \/ KeyEscape
    \/ MetaDelete
    \/ Meta_d
    \/ Meta_b
    \/ Meta_f
    \/ MetaOther(OtherMetaKeys)
    \/ KeyCtrlB
    \/ KeyPrintable(Chars, MaxLen)

MetaSpec == Init /\ [][MetaNext]_vars

\* a session of letters, cursor moves and Tabs
TabNext ==
    \/ REPL
    \/ replStart
    \/ KeyCtrlB
    \/ KeyTabRepeated
    \/ KeyTab(Candidates)
    \/ KeyPrintable(Typed, MaxLen)

TabSpec == Init /\ [][TabNext]_vars

\* a session of letters, Tabs and ESCAPE followed by Tab
PendingNext ==
    \/ REPL
    \/ replStart
    \/ KeyEscape
    \/ MetaOther({TAB})
    \/ KeyTabRepeated
    \/ KeyTab(Candidates)
    \/ KeyPrintable(Typed, MaxLen)

PendingSpec == Init /\ [][PendingNext]_vars

\* a session of the bytes that draw the line again, and Return, with a
\* handler whose completions are never unique
DisplayNext ==
    \/ REPL
    \/ replStart
    \/ KeyEscape
    \/ MetaDelete
    \/ Meta_d
    \/ Meta_b
    \/ Meta_f
    \/ KeyCtrlD
    \/ KeyCtrlA
    \/ KeyCtrlE
    \/ KeyCtrlF
    \/ KeyCtrlB
    \/ KeyCtrlK
    \/ KeyCtrlY
    \/ KeyCtrlL
    \/ KeyCtrlN
    \/ KeyCtrlP
    \/ KeyTabRepeated
    \/ KeyTab(Ambiguous)
    \/ KeyDelete
    \/ KeyReturn
    \/ KeyPrintable(Typed, MaxLen)

DisplaySpec == Init /\ [][DisplayNext]_vars

\* the brackets typed: both parentheses, both square brackets, a brace
Brackets == {OPEN_PAREN, CLOSE_PAREN, OPEN_BRACKET, CLOSE_BRACKET, CLOSE_BRACE}

\* a session in which brackets are typed and the cursor is moved back
BracketNext ==
    \/ REPL
    \/ replStart
    \/ KeyCtrlB
    \/ KeyPrintable(Brackets, MaxNest)

BracketSpec == Init /\ [][BracketNext]_vars

\* a session on a stream that may come to its end
EofNext ==
    \/ REPL
    \/ REPLCbreakFails
    \/ replStart
    \/ ReadError
    \/ ReadZeroBytes
    \/ KeyEscape
    \/ MetaOther(OtherMetaKeys)
    \/ KeyCtrlDEmpty
    \/ KeyCtrlC
    \/ KeyReturn
    \/ KeyPrintable(Typed, MaxLen)

EofSpec == Init /\ [][EofNext]_vars

\* ------------------------------------------------------------- claims
\* the bytes of buffer x from its cursor to its end
Tail0(x) == SubSeq(x.buf, x.cursor + 1, x.length)

\* the bytes a step from buffer x to buffer y removed: y is shorter, and
\* they sat at y's cursor
Removed(x, y) == SubSeq(x.buf, y.cursor + 1, y.cursor + (x.length - y.length))

KillOps == {"KillToEnd", "WordBackspace", "WordDelete", "DeleteRange"}

\* C1: after any sequence of line buffer methods on a fresh buffer,
\* 0 <= cursor <= length <= capacity (the size of the backing storage)
C1_CursorLengthCapacity ==
    pc = "buf" => /\ 0 <= lb.cursor
                  /\ lb.cursor <= lb.length
                  /\ lb.length <= lb.cap

\* a buffer whose storage has grown, holding text, its cursor inside it,
\* browsing its history, with killed text in the register
C1_Witness ==
    /\ pc = "buf"
    /\ lb.cap > InitCap
    /\ lb.length = MaxLen
    /\ 0 < lb.cursor /\ lb.cursor < lb.length
    /\ lb.historyIndex >= 0
    /\ lb.yanked # <<>>

\* C2: when KillToEnd is called twice in a row, the yank register after the
\* second call is the span killed by the first call followed by the span
\* killed by the second.  In a step that is the second call, pre is the
\* buffer before the first call and lb the buffer between the two.
C2_Coalescing ==
    [][(last.op = "KillToEnd" /\ last'.op = "KillToEnd")
          => lb'.yanked = Tail0(pre) \o Tail0(lb)]_vars

\* C3 as claimed: KillToEnd immediately followed by Yank leaves the buffer
\* text and length what they were before the KillToEnd.  In a step that is
\* the Yank, pre is the buffer before the KillToEnd.
C3_KillYankRoundTrip ==
    [][(last.op = "KillToEnd" /\ last'.op = "Yank")
          => /\ String(lb') = String(pre)
             /\ lb'.length = pre.length]_vars

\* C3 as amended: the round trip holds when the coalescing flag is clear,
\* or the yank register empty, at the time KillToEnd is called
C3_KillYankRoundTripFromClearFlag ==
    [][(/\ last.op = "KillToEnd"
        /\ last'.op = "Yank"
        /\ (~pre.yanking \/ pre.yanked = <<>>))
          => /\ String(lb') = String(pre)
             /\ lb'.length = pre.length]_vars

\* a Yank that followed a KillToEnd and put killed text back before the end
\* of the line
C3_Witness ==
    /\ last.op = "Yank" /\ last.prev = "KillToEnd"
    /\ last.ret > 0
    /\ pre.cursor = pre.length
    /\ lb.length = pre.length + last.ret
    /\ lb.yanked # lb.buf

\* C4: after a Yank the coalescing flag is set, so that a kill issued
\* immediately afterwards appends the span it removes to the yank register
C4_YankSetsCoalescing ==
    [][/\ last'.op = "Yank" => lb'.yanking
       /\ (last.op = "Yank" /\ last'.op \in KillOps)
             => lb'.yanked = lb.yanked \o Removed(lb, lb')]_vars

\* C5: DeleteRange(begin, end) returns 0 and changes nothing when
\* begin > length or end < 0; otherwise it removes the clamped range when
\* that is not empty, setting cursor = begin; and it returns the number of
\* bytes removed, never a negative number
C5_DeleteRange ==
    last.op = "DeleteRange" =>
        LET begin == last.a
            end == last.b
            b == IF begin < 0 THEN 0 ELSE begin
            e == IF end > pre.length THEN pre.length ELSE end
        IN  IF begin > pre.length \/ end < 0
            THEN last.ret = 0 /\ lb = pre
            ELSE /\ e > b => /\ String(lb) = SubSeq(pre.buf, 1, b)
                                               \o SubSeq(pre.buf, e + 1, pre.length)
                             /\ lb.cursor = b
                 /\ e <= b => lb = pre
                 /\ last.ret = pre.length - lb.length
                 /\ last.ret >= 0

\* C6: from a buffer that is not browsing, with n >= 1 history entries, the
\* k-th consecutive PrevInHistory (k <= n) leaves the k-th newest entry in
\* the buffer with the cursor at its end; every further call changes
\* nothing, the oldest entry staying in the buffer and under the browse
\* cursor
C6_PrevInHistoryRecall ==
    (run >= 1 /\ Len(lb.history) >= 1) =>
        LET n == Len(lb.history)
        IN  IF run <= n
            THEN /\ String(lb) = lb.history[n - run + 1]
                 /\ lb.length = Len(lb.history[n - run + 1])
                 /\ lb.cursor = lb.length
                 /\ lb.historyIndex = n - run
            ELSE /\ String(lb) = lb.history[1]
                 /\ lb.historyIndex = 0
                 /\ lb = pre

\* PrevInHistory called once more than there are entries, the entries
\* differing
C6_Witness ==
    /\ Len(lb.history) = MaxHist
    /\ lb.history[1] # lb.history[MaxHist]
    /\ run = MaxHist + 1
    /\ last.op = "PrevInHistory"

InSession == pc \in {"read", "done", "panic"} /\ hnd.start > 0

\* repl has returned, by either of its two return statements
LoopExited == pc = "done" /\ result.repl # "none"

\* C8: in every state of a session, whatever list Start returned, the
\* browse cursor (historyIndex) is -1 or an index of an entry of the
\* history: 0 <= historyIndex < number of entries
C8_HistoryCursorValid ==
    InSession =>
        \/ lb.historyIndex = -1
        \/ 0 <= lb.historyIndex /\ lb.historyIndex < Len(lb.history)

\* C9: when a read fails after the loop has started, Stop is called with
\* the history and REPL returns the error to its caller
C9_ReadErrorPropagated ==
    (pc = "done" /\ result.repl = "err") =>
        /\ hnd.stop = 1
        /\ hnd.stopArg = lb.history
        /\ result.REPL = "err"

\* C10: Start is called exactly once, before the first byte is read; while
\* the loop runs Stop has not been called and the history is the seed
\* followed by the submitted lines in order; when the loop is left by
\* CTRL_D on an empty buffer or by a read error, Stop has been called
\* exactly once, with the seed followed by every submitted line in
\* submission order, and no handler method was called after it
C10_SessionProtocol ==
    /\ hnd.start <= 1 /\ hnd.stop <= 1
    /\ pc \in {"REPL", "repl"} => hnd.start = 0 /\ hnd.stop = 0
    /\ pc \in {"read", "panic"} =>
          /\ hnd.start = 1 /\ hnd.stop = 0
          /\ lb.history = hnd.seed \o hnd.submitted
    /\ LoopExited =>
          /\ hnd.start = 1 /\ hnd.stop = 1
          /\ ~hnd.afterStop
          /\ hnd.stopArg = hnd.seed \o hnd.submitted

\* the loop was left by CTRL_D after a line was submitted to a history
\* seeded with a different line
C10_Witness ==
    /\ LoopExited /\ result.repl = "nil"
    /\ Len(hnd.seed) = 1 /\ Len(hnd.submitted) = 1
    /\ hnd.submitted[1] # hnd.seed[1]
    /\ hnd.stopArg = <<hnd.seed[1], hnd.submitted[1]>>

\* C11: a read that returns zero bytes (the stream is at its end) is an
\* error return of the read: the step that handles it calls Stop and ends
\* the loop with that error
C11_ZeroByteReadEndsSession ==
    [][ReadZeroBytes =>
          /\ pc' = "done"
          /\ result'.repl = "err"
          /\ hnd'.stop = 1]_vars

\* C12: cbreak mode is entered exactly once before the loop starts and
\* the saved state is restored exactly once when the loop is left (by
\* CTRL_D on an empty buffer or by a read error; by a panic too); when
\* entering the mode fails REPL returns the error, the loop never runs,
\* no handler method is called and nothing is restored
C12_ScopedTerminalMode ==
    /\ tty.entered <= 1 /\ tty.restored <= 1
    /\ pc = "REPL" => tty.entered = 0 /\ tty.restored = 0
    /\ pc \in {"repl", "read"} =>
          tty.entered = 1 /\ tty.restored = 0 /\ tty.mode = "cbreak"
    /\ (LoopExited \/ pc = "panic") => tty.entered = 1 /\ tty.restored = 1
    /\ (pc = "done" /\ result.REPL = "err") =>
          /\ tty.entered = 0 /\ tty.restored = 0
          /\ result.repl = "none"
          /\ hnd.start = 0 /\ hnd.stop = 0 /\ hnd.calls = <<>>
          /\ hnd.eval = "none"

\* the loop was left by a read error after a line was submitted
C12_Witness ==
    /\ LoopExited /\ result.repl = "err"
    /\ hnd.submitted # <<>>
    /\ tty.entered = 1 /\ tty.restored = 1

\* the last Eval asked for more and the loop is reading on
Continuation == pc = "read" /\ hnd.eval = "more"

\* C13: after Eval returned more, as long as only printable bytes are
\* typed (Return brings the next Eval), the prompt the core writes is
\* empty, neither Prompt nor Reset is called, nothing is printed, the
\* history still is the seed and every submitted line, the partial line
\* last; after a non-empty partial line the terminal line shows the
\* buffer text only.  A result is printed only after an Eval that
\* returned one.
C13_ContinuationMode ==
    /\ Continuation =>
          /\ prompt = <<>>
          /\ \A i \in 1 .. Len(hnd.calls) : hnd.calls[i].m = "Eval"
          /\ signal.printed = "none"
          /\ lb.history = hnd.seed \o hnd.submitted
          /\ hnd.submitted[Len(hnd.submitted)] # <<>> =>
                /\ term.line = Trim(String(lb))
                /\ term.col = lb.cursor
    /\ signal.printed = "result" =>
          /\ hnd.eval = "result"
          /\ hnd.calls[1].m = "Eval"

\* a line of two bytes was submitted to a seeded history, Eval asked for
\* more, and a byte of the next line has been typed
C13_Witness ==
    /\ Continuation
    /\ hnd.seed # <<>>
    /\ hnd.submitted = << <<CH_a, CH_a>> >>
    /\ String(lb) = <<CH_a>>
    /\ hnd.calls = <<>>
    /\ term.line = <<CH_a>>

\* the closing brackets
Closers == {CLOSE_PAREN, CLOSE_BRACKET, CLOSE_BRACE}

\* how many of the bytes of text at indices lo .. hi (from 0) are ch
CountIn(text, lo, hi, ch) ==
    Cardinality({k \in lo .. hi : text[k + 1] = ch})

\* the index of the nearest opener before index c of text that has as many
\* openers as closers between itself and c, or -1 when there is none
NearestOpener(text, c, chOpen, chClose) ==
    LET found == {j \in 0 .. c - 1 :
                    /\ text[j + 1] = chOpen
                    /\ CountIn(text, j + 1, c - 1, chOpen)
                         = CountIn(text, j + 1, c - 1, chClose)}
    IN  IF found = {} THEN -1
        ELSE CHOOSE j \in found : \A k \in found : k <= j

\* text with ch put in at index at (from 0)
InsertedAt(text, at, ch) ==
    SubSeq(text, 1, at) \o <<ch>> \o SubSeq(text, at + 1, Len(text))

\* C14: after a closing bracket typed in normal state has been handled,
\* the buffer is the old text with only the closer inserted at the old
\* cursor and the cursor is one past it; the render cursor is shown at the
\* nearest preceding opener of the same kind at depth zero when there is
\* one, and otherwise only the BEEP is emitted
C14_HighlightKeepsCursor ==
    [][(pc = "read" /\ ~meta /\ pc' = "read" /\ lastChar' \in Closers) =>
          /\ String(lb') = InsertedAt(String(lb), lb.cursor, lastChar')
          /\ lb'.cursor = lb.cursor + 1
          /\ lb'.length = lb.length + 1
          /\ LET at == NearestOpener(String(lb'), lb.cursor,
                                     matching(lastChar'), lastChar')
             IN  IF at >= 0
                 THEN signal'.flash = at /\ ~signal'.beep
                 ELSE signal'.flash = -1 /\ signal'.beep]_vars

\* a closer was matched with its opener across a nested pair
C14_Witness ==
    /\ pc = "read" /\ lastChar = CLOSE_PAREN
    /\ String(lb) = <<OPEN_PAREN, OPEN_PAREN, CLOSE_PAREN, CLOSE_PAREN>>
    /\ lb.cursor = 4
    /\ signal.flash = 0

\* C15: from an empty buffer, after n characters inserted with Insert and
\* then n times Backward followed by Delete, the buffer is empty and the
\* cursor is 0
C15_InsertBackspaceRoundTrip ==
    (pc = "erasing" /\ run = 0) => lb.length = 0 /\ lb.cursor = 0

\* MaxLen characters, which made the storage grow, were inserted and
\* erased again
C15_Witness ==
    /\ pc = "erasing" /\ run = 0
    /\ pre.length = MaxLen /\ pre.cursor = MaxLen
    /\ pre.cap > InitCap
    /\ lb.yanked # <<>>
    /\ IsEmpty(lb)

\* C16: WordDelete, WordBackspace, WordForward and WordBackward read the
\* storage inside its bounds for every text and every cursor, cursor 0
\* and the empty buffer included: no call aborts the program
C16_WordOpsInBounds == pc # "panic"

\* from p, left over the spaces immediately before it
RECURSIVE LeftOverSpaces(_, _)
LeftOverSpaces(text, p) ==
    IF p > 0 /\ text[p] = SPACE THEN LeftOverSpaces(text, p - 1) ELSE p

\* from p, left over the characters other than space immediately before it
RECURSIVE LeftOverWord(_, _)
LeftOverWord(text, p) ==
    IF p > 0 /\ text[p] # SPACE THEN LeftOverWord(text, p - 1) ELSE p

\* the start of the word before the cursor
WordStart(text, cursor) == LeftOverWord(text, LeftOverSpaces(text, cursor))

\* from q, right over the spaces at it
RECURSIVE RightOverSpaces(_, _)
RightOverSpaces(text, q) ==
    IF q < Len(text) /\ text[q + 1] = SPACE
    THEN RightOverSpaces(text, q + 1) ELSE q

\* from q, right over the characters other than space at it
RECURSIVE RightOverWord(_, _)
RightOverWord(text, q) ==
    IF q < Len(text) /\ text[q + 1] # SPACE
    THEN RightOverWord(text, q + 1) ELSE q

\* the end of the word after the cursor
WordEnd(text, cursor) == RightOverWord(text, RightOverSpaces(text, cursor))

\* text without the bytes at indices from .. to - 1 (from 0)
Without(text, from, to) ==
    SubSeq(text, 1, from) \o SubSeq(text, to + 1, Len(text))

\* C17: WordBackward moves the cursor to p, the start of the word before
\* the cursor (left over the spaces before the cursor, then left over the
\* characters other than space, stopping at 0), and changes no text;
\* WordBackspace deletes exactly [p, cursor) for the same p
C17_BackwardWordScan ==
    LET p == WordStart(String(pre), pre.cursor)
    IN  /\ last.op = "WordBackward" =>
              /\ lb.cursor = p
              /\ String(lb) = String(pre)
        /\ last.op = "WordBackspace" =>
              /\ String(lb) = Without(String(pre), p, pre.cursor)
              /\ lb.cursor = p
              /\ last.ret = pre.cursor - p

\* C18: called with cursor >= 1, WordDelete removes exactly [cursor, q),
\* q being where WordForward would move the cursor, returns q - cursor and
\* leaves the cursor where it was
C18_WordDeleteScansAsWordForward ==
    (last.op = "WordDelete" /\ pre.cursor >= 1) =>
        LET q == WordForward(pre).cursor
        IN  /\ q = WordEnd(String(pre), pre.cursor)
            /\ String(lb) = Without(String(pre), pre.cursor, q)
            /\ last.ret = q - pre.cursor
            /\ lb.cursor = pre.cursor

\* C19: after a byte has been handled the dispatcher is in the meta state
\* exactly when that byte was an ESCAPE read in normal state; the byte
\* read in the meta state is the only one handled there: DELETE calls
\* WordBackspace, d WordDelete, b WordBackward, f WordForward, and any
\* other byte gives the BEEP and leaves the buffer as it is; no handler
\* method is called
C19_MetaStateMachine ==
    [][/\ (pc = "read" /\ pc' = "read") =>
             (meta' <=> (~meta /\ lastChar' = ESCAPE))
       /\ (pc = "read" /\ pc' = "read" /\ meta) =>
             /\ hnd'.calls = <<>>
             /\ IF lastChar' = DELETE
                THEN lb' = WordBackspace(lb).lb /\ ~signal'.beep
                ELSE IF lastChar' = CH_d
                THEN lb' = WordDelete(lb).lb /\ ~signal'.beep
                ELSE IF lastChar' = CH_b
                THEN lb' = WordBackward(lb) /\ ~signal'.beep
                ELSE IF lastChar' = CH_f
                THEN lb' = WordForward(lb) /\ ~signal'.beep
                ELSE lb' = lb /\ signal'.beep
       /\ (pc = "read" /\ pc' = "panic") =>
             meta /\ ~meta' /\ WordDelete(lb).panic]_vars

\* ESCAPE, ESCAPE was typed on a line with the cursor inside it: the
\* second ESCAPE gave the BEEP and the dispatcher is in normal state
C19_Witness ==
    /\ pc = "read" /\ ~meta /\ lastChar = ESCAPE
    /\ signal.beep
    /\ lb.length = MaxLen /\ 0 < lb.cursor /\ lb.cursor < lb.length

\* text with the bytes of more put in at index at (from 0)
SplicedAt(text, at, more) ==
    SubSeq(text, 1, at) \o more \o SubSeq(text, at + 1, Len(text))

\* C20: a Tab in normal state prints the pending candidates, one per line,
\* and renders the line again, only when the byte before it was a Tab and
\* candidates are pending; every other Tab, one after a Tab with nothing
\* pending included, calls Complete with the text before the cursor,
\* inserts the addendum at the cursor and, for exactly one candidate, a
\* space after it, clearing the pending candidates
C20_TabDispatch ==
    [][(pc = "read" /\ ~meta /\ pc' = "read" /\ lastChar' = TAB) =>
          IF lastChar = TAB /\ options.list # <<>>
          THEN /\ hnd'.calls = <<>>
               /\ lb' = lb /\ options' = options
               /\ term' = putChar(drawline(putChar(
                                     PrintOptions(term, options.list), NEWLINE),
                                   prompt, lb, 0), BEEP)
          ELSE /\ hnd'.calls = << [m |-> "Complete",
                                   arg |-> SubSeq(String(lb), 1, lb.cursor)] >>
               /\ \E addendum \in Addenda, opt \in Candidates :
                     IF Len(opt.list) = 1
                     THEN /\ String(lb') = SplicedAt(String(lb), lb.cursor,
                                                     addendum \o <<SPACE>>)
                          /\ lb'.cursor = lb.cursor + Len(addendum) + 1
                          /\ options'.list = <<>>
                     ELSE /\ String(lb') = SplicedAt(String(lb), lb.cursor,
                                                     addendum)
                          /\ lb'.cursor = lb.cursor + Len(addendum)
                          /\ options'.list = opt.list]_vars

\* a Tab read now prints the candidates kept in options
Pending == pc = "read" /\ ~meta /\ lastChar = TAB /\ options.list # <<>>

\* C21: the pending candidates do not outlive a byte other than a Tab
\* handled in normal state: after any other byte (an ESCAPE, the byte
\* after an ESCAPE, an edit) no list is pending, so a list that a Tab
\* prints is the one Complete returned to the Tab, or run of Tabs, right
\* before it
C21_PendingCompletionsTransient ==
    [][(pc = "read" /\ pc' = "read" /\ ~(~meta /\ lastChar' = TAB)) =>
          ~Pending']_vars

\* the step of an iteration that called drawline: a byte of an ESCAPE
\* sequence that edits or moves by a word, or in normal state a byte that
\* edits, moves the cursor, recalls a line, completes or draws again
Redrawn ==
    /\ pc = "read" /\ pc' = "read"
    /\ \/ meta /\ lastChar' \in {DELETE, CH_d, CH_b, CH_f}
       \/ ~meta /\ lastChar' \in {CTRL_D, CTRL_A, CTRL_E, CTRL_K, CTRL_Y,
                                  CTRL_L, CTRL_N, CTRL_P}
       \/ ~meta /\ lastChar' = CTRL_F /\ lb.cursor < lb.length
       \/ ~meta /\ lastChar' \in {CTRL_B, DELETE} /\ lb.cursor > 0
       \/ ~meta /\ lastChar' = TAB /\ (lastChar # TAB \/ ~options.nil)
       \/ ~meta /\ lastChar' >= SPACE /\ lastChar' < DELETE

\* the terminal line is the prompt and the text with only blanks after
\* them, and the terminal cursor is at the column of the buffer's cursor
Displayed ==
    /\ term.line = Trim(prompt \o String(lb))
    /\ term.col = Len(prompt) + lb.cursor

\* C22: after the dispatcher has handled a byte that draws the line again,
\* the terminal line shows exactly the current prompt followed by the
\* buffer text, with only blanks after it, and the terminal cursor is at
\* column len(prompt) + cursor
C22_DisplayConsistency == [][Redrawn => Displayed']_vars

\* C23: after every Return handled in normal state, whatever Eval returns,
\* the text passed to Eval (called once) is the buffer text at the moment
\* of the Return, that text is the one new last entry of the history (also
\* when it is empty), the buffer is empty with its cursor at 0, and the
\* history is not being browsed, so that the next PrevInHistory recalls the
\* line just submitted
C23_ReturnSubmitsLine ==
    [][(pc = "read" /\ ~meta /\ pc' = "read" /\ lastChar' = RETURN) =>
          /\ hnd'.calls # <<>>
          /\ hnd'.calls[1] = [m |-> "Eval", arg |-> String(lb)]
          /\ \A i \in 2 .. Len(hnd'.calls) : hnd'.calls[i].m # "Eval"
          /\ hnd'.eval \in EvalOutcomes
          /\ ~lb'.historyNil
          /\ lb'.history = Append(lb.history, String(lb))
          /\ lb'.length = 0 /\ lb'.cursor = 0
          /\ lb'.historyIndex = -1
          /\ String(PrevInHistory(lb').lb) = String(lb)]_vars

\* Return has just submitted an empty line, after a line of text, to an
\* Eval that asked for more: the history ends with the empty line and the
\* buffer is empty and not browsing
C23_Witness ==
    /\ pc = "read" /\ ~meta /\ lastChar = RETURN
    /\ hnd.calls = << [m |-> "Eval", arg |-> <<>>] >>
    /\ hnd.eval = "more"
    /\ Len(lb.history) = 2
    /\ lb.history[1] # <<>> /\ lb.history[2] = <<>>
    /\ lb.length = 0 /\ lb.cursor = 0 /\ lb.historyIndex = -1

====
